---- MODULE Spec2Model ----
(***************************************************************************)
(* Placement engine of the phyllotaxis simulator (Simulator, GaussianRNG,  *)
(* compileKernel).                                                         *)
(*                                                                         *)
(* Arithmetic is fixed point over the integers:                            *)
(*   lengths   integer length units (R, v, dt, maxR, lambda, sigma, d0),   *)
(*   angles    integer degrees, one turn = TwoPi = 360,                    *)
(*   cos, sin  scaled by TrigScale,                                        *)
(*   kernel and field values scaled by FScale,                             *)
(*   32-bit words as records [hi, lo] of two 16-bit halves.                *)
(* Arrays keep the 0-based indices of the source; a sequence element i of  *)
(* the source is element i + 1 of the TLA+ sequence.                       *)
(***************************************************************************)
EXTENDS Integers, Sequences, FiniteSets, TLC

\* ------------------------------------------------------------------------
\* Bounds of the model
\* ------------------------------------------------------------------------

\* largest totalPrimordia of an enumerated configuration
MaxTotal == 4

\* largest batchSize of an enumerated configuration
MaxBatch == 2

\* largest field value, besides the exclusion penalty, of the triples the
\* parabolic refinement is applied to on its own
MaxField == 4

\* most next() calls on the noise generator between two of its resets
MaxDraws == 3

\* largest seed handed to GaussianRNG.reset on its own
MaxSeed == 7

\* the number of step() calls of the default run
DefaultRunSteps == 100

\* the largest distance a compiled kernel is called with on its own, in
\* units of DistanceStep
MaxDistanceIndex == 10

\* the largest noise offset, in units of 1/Fine degree, added to a refined
\* angle on its own
MaxNoise == 20

\* most step() calls of a run whose radii are followed in rounded arithmetic
MaxAge == 12

\* ------------------------------------------------------------------------
\* Fixed-point scales and elementary functions
\* ------------------------------------------------------------------------

TwoPi == 360

TrigScale == 1000

FScale == 1000000

\* the initial minVal of the minimum scan (Infinity)
PosInfinity == 2147483647

\* -Infinity
NegInfinity == -2147483647

\* NaN: a code outside the values of the model; the operators below give it
\* the comparisons of a JavaScript NaN
NaN == -2147483646

\* isFinite / Number.isFinite on a number
IsFinite(x) == x \notin {PosInfinity, NegInfinity, NaN}

\* a <= b and a < b of JavaScript: false when an operand is NaN
JsLe(a, b) == a # NaN /\ b # NaN /\ a <= b

JsLt(a, b) == a # NaN /\ b # NaN /\ a < b

\* a / 0 of JavaScript
DivByZero(a) == IF a = NaN \/ a = 0 THEN NaN ELSE IF a > 0 THEN PosInfinity ELSE NegInfinity

Abs(x) == IF x < 0 THEN -x ELSE x

Min2(a, b) == IF a < b THEN a ELSE b

Max2(a, b) == IF a > b THEN a ELSE b

\* JavaScript / : quotient rounded toward zero in fixed point
TruncDiv(a, b) ==
  IF (a >= 0) = (b > 0) THEN Abs(a) \div Abs(b) ELSE -(Abs(a) \div Abs(b))

\* JavaScript % : remainder with the sign of the dividend
JsRem(a, b) == IF a >= 0 THEN a % b ELSE -((-a) % b)

RECURSIVE Pow(_, _)
Pow(b, e) == IF e = 0 THEN 1 ELSE b * Pow(b, e - 1)

RECURSIVE SqrtIter(_, _)
SqrtIter(n, x) ==
  LET y == (x + n \div x) \div 2
  IN  IF y >= x THEN x ELSE SqrtIter(n, y)

\* Math.sqrt, rounded down to an integer (Newton's iteration from a start
\* that is not below the root)
Sqrt(n) ==
  IF n <= 0 THEN 0
  ELSE SqrtIter(n, IF n <= 1048576 THEN Min2(n, 1024) ELSE n)

\* Math.sin of x degrees (0 <= x < 360), scaled by TrigScale
Sin(x) ==
  LET y == IF x <= 180 THEN x ELSE x - 180
      p == y * (180 - y)
      b == (4 * TrigScale * p) \div (40500 - p)
  IN  IF x <= 180 THEN b ELSE -b

\* Math.cos of x degrees (0 <= x < 360), scaled by TrigScale
Cos(x) == Sin((x + 90) % TwoPi)

\* FScale * Math.exp(-num / den) for num >= 0, den > 0
ExpNeg(num, den) ==
  LET t == (num * 1443) \div den
      q == t \div 1000
      f == t % 1000
  IN  IF q >= 30 THEN 0 ELSE ((FScale \div Pow(2, q)) * (2000 - f)) \div 2000

\* ------------------------------------------------------------------------
\* 32-bit words
\* ------------------------------------------------------------------------

Half == 65536

RECURSIVE Xor16(_, _)
Xor16(a, b) ==
  IF a = 0 THEN b
  ELSE IF b = 0 THEN a
  ELSE ((a + b) % 2) + 2 * Xor16(a \div 2, b \div 2)

RECURSIVE Or16(_, _)
Or16(a, b) ==
  IF a = 0 THEN b
  ELSE IF b = 0 THEN a
  ELSE (IF a % 2 = 1 \/ b % 2 = 1 THEN 1 ELSE 0) + 2 * Or16(a \div 2, b \div 2)

\* ToUint32 of a number held as [hi, lo] with hi unbounded
ToUint32(w) == [hi |-> w.hi % Half, lo |-> w.lo]

XorW(a, b) == [hi |-> Xor16(a.hi, b.hi), lo |-> Xor16(a.lo, b.lo)]

\* w | c for a constant c < 2^16
OrLow(w, c) == [hi |-> w.hi, lo |-> Or16(w.lo, c)]

\* w >>> n for 0 < n < 16
Shr(w, n) ==
  LET k == Pow(2, n)
  IN  [hi |-> w.hi \div k, lo |-> (w.hi % k) * (Half \div k) + w.lo \div k]

\* (a + b) mod 2^32
AddW(a, b) ==
  LET l == a.lo + b.lo
  IN  [hi |-> (a.hi + b.hi + l \div Half) % Half, lo |-> l % Half]

\* low 16 bits of the product of two 16-bit numbers
MulLo16(x, y) ==
  LET x1 == x \div 256
      x0 == x % 256
      y1 == y \div 256
      y0 == y % 256
  IN  (((x1 * y0 + x0 * y1) % 256) * 256 + x0 * y0) % Half

\* bits 16..31 of the product of two 16-bit numbers
MulHi16(x, y) ==
  LET x1 == x \div 256
      x0 == x % 256
      y1 == y \div 256
      y0 == y % 256
      mid == x1 * y0 + x0 * y1
      l == (mid % 256) * 256 + x0 * y0
  IN  (l \div Half + mid \div 256 + x1 * y1) % Half

\* Math.imul(a, b)
Imul(a, b) ==
  [hi |-> (MulHi16(a.lo, b.lo) + MulLo16(a.hi, b.lo) + MulLo16(a.lo, b.hi)) % Half,
   lo |-> MulLo16(a.lo, b.lo)]

\* ------------------------------------------------------------------------
\* Noise generator: mulberry32 and GaussianRNG
\* ------------------------------------------------------------------------

\* the increment 0x6D2B79F5 of mulberry32, as two halves
IncHi == 27947

IncLo == 31221

\* the closure created by mulberry32(seed): its captured variable seed
mulberry32(seed) == [hi |-> seed \div Half, lo |-> seed % Half]

\* seed += 0x6D2B79F5 : an addition of numbers, not reduced to 32 bits
AdvanceSeed(s) ==
  [hi |-> s.hi + IncHi + (s.lo + IncLo) \div Half, lo |-> (s.lo + IncLo) % Half]

\* the 32-bit word (t ^ t >>> 14) >>> 0 computed by one call; the result of
\* the call is this word divided by 2^32
Mix(s) ==
  LET t0 == ToUint32(s)
      t1 == Imul(XorW(t0, Shr(t0, 15)), OrLow(t0, 1))
      t2 == XorW(t1, AddW(t1, Imul(XorW(t1, Shr(t1, 7)), OrLow(t1, 61))))
  IN  XorW(t2, Shr(t2, 14))

RECURSIVE BitLen(_)
BitLen(n) == IF n = 0 THEN 0 ELSE 1 + BitLen(n \div 2)

\* 1000 * -Math.log(Math.max(u, 1e-12)) for u = w / 2^32
NegLog(w) ==
  IF w.hi = 0 /\ w.lo = 0 THEN 27631
  ELSE LET top  == IF w.hi > 0 THEN w.hi ELSE w.lo
           b    == BitLen(top)
           lead == Pow(2, b - 1)
           zs   == IF w.hi > 0 THEN 16 - b ELSE 32 - b
           frac == ((top - lead) * 1000) \div lead
       IN  (693 * (1000 * (zs + 1) - frac)) \div 1000

\* the Box-Muller pair for the uniform words u and v, scaled by TrigScale
BoxMuller(u, v) ==
  LET r     == Sqrt(2 * NegLog(u) * 1000)
      theta == (v.hi * TwoPi) \div Half
  IN  [cos |-> TruncDiv(r * Cos(theta), TrigScale),
       sin |-> TruncDiv(r * Sin(theta), TrigScale)]

\* spare === null is the empty sequence, a cached sample v is <<v>>
NoSpare == <<>>

\* new GaussianRNG(seed)
NewGaussianRNG(seed) == [rng |-> mulberry32(seed), spare |-> NoSpare]

\* a partial reset: the uniform source is recreated, the cached spare is kept
RngReset_keepSpare(g, seed) == [rng |-> mulberry32(seed), spare |-> g.spare]

\* a partial reset: the spare is cleared, the uniform source keeps its state
RngReset_keepSource(g, seed) == [rng |-> g.rng, spare |-> NoSpare]

\* GaussianRNG.reset(seed)
RngReset(g, seed) == [rng |-> mulberry32(seed), spare |-> NoSpare]

\* next() that does not keep the second sample of a pair
RngNext_noSpare(g) ==
  LET s1 == AdvanceSeed(g.rng)
      s2 == AdvanceSeed(s1)
      bm == BoxMuller(Mix(s1), Mix(s2))
  IN  [g |-> [rng |-> s2, spare |-> NoSpare], val |-> bm.cos]

\* GaussianRNG.next(): the generator after the call and the value returned
RngNext(g) ==
  IF g.spare # NoSpare
    THEN [g |-> [rng |-> g.rng, spare |-> NoSpare], val |-> g.spare[1]]
    ELSE LET s1 == AdvanceSeed(g.rng)
             s2 == AdvanceSeed(s1)
             bm == BoxMuller(Mix(s1), Mix(s2))
         IN  [g |-> [rng |-> s2, spare |-> <<bm.sin>>], val |-> bm.cos]

\* wrapAngle
wrapAngle(theta) ==
  LET t == JsRem(theta, TwoPi)
  IN  IF t < 0 THEN t + TwoPi ELSE t

\* ------------------------------------------------------------------------
\* Kernel compiler
\* ------------------------------------------------------------------------

\* HARD_CORE_PENALTY (1e30 in the source), scaled into the integer range:
\* larger than any sum of kernel contributions of MaxTotal + 1 organs
HARD_CORE_PENALTY == 100000000

\* CUSTOM_BAD_PENALTY (1e30 in the source), scaled like HARD_CORE_PENALTY
CUSTOM_BAD_PENALTY == 100000000

\* expressions handed to the parser of expr-eval: a decaying kernel, one that
\* is infinite at d = 0, one that is NaN below d0, one that names a variable
\* the scope does not hold, and one that is cut off
ExprDecay == "A * exp(-d / lambda)"

ExprPole == "A / d"

ExprRoot == "sqrt(d - d0)"

ExprUnbound == "A * q"

ExprCutOff == "A * exp(-d /"

\* exprParser.parse(expr) returns an Expression (does not throw)
Parses(expr) == expr \in {ExprDecay, ExprPole, ExprRoot, ExprUnbound}

\* Expression.evaluate(scope): whether it threw, and the value (scaled by
\* FScale) when it did not
Evaluate(expr, scope) ==
  CASE expr = ExprDecay ->
         [threw |-> FALSE, value |-> scope.A * ExpNeg(scope.d, scope.lambda)]
    [] expr = ExprPole ->
         [threw |-> FALSE,
          value |-> IF scope.d = 0 THEN DivByZero(scope.A)
                    ELSE TruncDiv(scope.A * FScale, scope.d)]
    [] expr = ExprRoot ->
         [threw |-> FALSE,
          value |-> IF scope.d < scope.d0 THEN NaN
                    ELSE FScale * Sqrt(scope.d - scope.d0)]
    [] expr = ExprUnbound ->
         [threw |-> TRUE, value |-> NaN]

\* the value validateExpression returns for an expression that parses
Null == "null"

\* validateExpression
validateExpression(expr) == IF Parses(expr) THEN Null ELSE "parse error"

\* the outcome of compileKernel when exprParser.parse throws
Thrown == [threw |-> TRUE]

\* compileKernel: fn holds the variables captured by the closure
compileKernel(k) ==
  CASE k.type = "exp" ->
         [fn |-> [type |-> "exp", A |-> k.A, lambda |-> k.lambda],
          hasHardCore |-> FALSE, d0 |-> 0]
    [] k.type = "gaussian" ->
         [fn |-> [type |-> "gaussian", A |-> k.A,
                  twoSigmaSq |-> 2 * k.sigma * k.sigma],
          hasHardCore |-> FALSE, d0 |-> 0]
    [] k.type = "softPower" ->
         [fn |-> [type |-> "softPower", A |-> k.A, p |-> k.p, eps |-> k.eps],
          hasHardCore |-> FALSE, d0 |-> 0]
    [] k.type = "hardCoreExp" ->
         [fn |-> [type |-> "exp", A |-> k.A, lambda |-> k.lambda],
          hasHardCore |-> TRUE, d0 |-> k.d0]
    [] k.type = "custom" ->
         IF Parses(k.expr)
           THEN [fn |-> [type |-> "custom", expr |-> k.expr, scope |-> k.params],
                 hasHardCore |-> FALSE, d0 |-> 0]
           ELSE Thrown

\* the scope the closure of a custom kernel evaluates in: the parameters
\* and d
Scope(fn, d) ==
  [A |-> fn.scope.A, lambda |-> fn.scope.lambda, sigma |-> fn.scope.sigma,
   p |-> fn.scope.p, eps |-> fn.scope.eps, d0 |-> fn.scope.d0, d |-> d]

\* the body of the closure of a custom kernel after evaluate() gave r: whether
\* the call threw, and the value it returned
CustomOutcome(r) ==
  IF r.threw THEN [threw |-> FALSE, value |-> CUSTOM_BAD_PENALTY]
  ELSE IF ~IsFinite(r.value)
    THEN [threw |-> FALSE, value |-> CUSTOM_BAD_PENALTY]
    ELSE [threw |-> FALSE, value |-> r.value]

\* the closure of a custom kernel without its try/catch
CustomCall_noCatch(fn, d) ==
  [CustomOutcome(Evaluate(fn.expr, Scope(fn, d)))
     EXCEPT !.threw = Evaluate(fn.expr, Scope(fn, d)).threw]

\* a call of the closure of a custom kernel
CustomCall(fn, d) == CustomOutcome(Evaluate(fn.expr, Scope(fn, d)))

\* CompiledKernel.fn(d), scaled by FScale
KernelFn(fn, d) ==
  CASE fn.type = "exp"       -> fn.A * ExpNeg(d, fn.lambda)
    [] fn.type = "gaussian"  -> fn.A * ExpNeg(d * d, fn.twoSigmaSq)
    [] fn.type = "softPower" ->
         IF Pow(d, fn.p) + fn.eps = 0 THEN DivByZero(fn.A)
         ELSE (fn.A * FScale) \div (Pow(d, fn.p) + fn.eps)
    [] fn.type = "custom"    -> CustomCall(fn, d).value

\* ------------------------------------------------------------------------
\* Configurations accepted by validateConfig
\* ------------------------------------------------------------------------

MinAngleSamples == 36

MinTotalPrimordia == 2

Geometries ==
  { [R |-> 100, v |-> 25, dt |-> 2, maxR |-> 200],
    [R |-> 100, v |-> 40, dt |-> 1, maxR |-> 150] }

Kernels ==
  { [type |-> "exp", A |-> 1, lambda |-> 18],
    [type |-> "gaussian", A |-> 1, sigma |-> 40],
    [type |-> "softPower", A |-> 1, p |-> 2, eps |-> 1],
    [type |-> "hardCoreExp", A |-> 1, lambda |-> 18, d0 |-> 60] }

Noises ==
  { [enabled |-> FALSE, sigmaThetaDeg |-> 0, seed |-> 12345],
    [enabled |-> TRUE, sigmaThetaDeg |-> 45, seed |-> 7] }

\* the part of the render settings validateConfig reads
Render == [pointRadius |-> 3]

Configs ==
  { [R |-> g.R, v |-> g.v, dt |-> g.dt, maxR |-> g.maxR,
     angleSamples |-> MinAngleSamples, totalPrimordia |-> t, batchSize |-> b,
     kernel |-> k, noise |-> n, render |-> Render] :
      g \in Geometries, t \in MinTotalPrimordia..MaxTotal, b \in 1..MaxBatch,
      k \in Kernels, n \in Noises }

\* the kernel checks of validateConfig: no error is pushed
validKernel(k) ==
  CASE k.type = "exp" ->
         ~JsLe(k.lambda, 0) /\ IsFinite(k.A)
    [] k.type = "gaussian" ->
         ~JsLe(k.sigma, 0) /\ IsFinite(k.A)
    [] k.type = "softPower" ->
         ~JsLe(k.p, 0) /\ ~JsLt(k.eps, 0) /\ IsFinite(k.A)
    [] k.type = "hardCoreExp" ->
         ~JsLe(k.lambda, 0) /\ ~JsLt(k.d0, 0) /\ IsFinite(k.A)
    [] k.type = "custom" ->
         /\ validateExpression(k.expr) = Null
         /\ ~JsLe(k.params.lambda, 0)
         /\ ~JsLe(k.params.sigma, 0)
         /\ ~JsLe(k.params.p, 0)
         /\ ~JsLt(k.params.eps, 0)
         /\ ~JsLt(k.params.d0, 0)

\* validateConfig(cfg).valid: no error is pushed
validateConfig(c) ==
  /\ ~JsLe(c.R, 0)
  /\ ~JsLt(c.angleSamples, MinAngleSamples)
  /\ ~JsLt(c.totalPrimordia, MinTotalPrimordia)
  /\ ~JsLt(c.batchSize, 1)
  /\ ~JsLe(c.maxR, c.R)
  /\ ~JsLe(c.v, 0)
  /\ ~JsLe(c.dt, 0)
  /\ validKernel(c.kernel)
  /\ (c.noise.enabled => ~JsLt(c.noise.sigmaThetaDeg, 0))
  /\ ~JsLe(c.render.pointRadius, 0)

\* ------------------------------------------------------------------------
\* Simulator: the methods as functions of the engine record s, whose fields
\* are the fields of the class
\* ------------------------------------------------------------------------

\* the seed of the generator a Simulator is constructed with
DefaultSeed == 12345

\* the value of a field declared without initialiser, before init()
Undefined == <<>>

\* new Simulator()
NewSimulator ==
  [cfg |-> Undefined, primordia |-> <<>>, kernel |-> Undefined,
   candidateCos |-> Undefined, candidateSin |-> Undefined,
   activeXs |-> Undefined, activeYs |-> Undefined, activeCount |-> 0,
   firstActiveIndex |-> 0, warnedOverflow |-> FALSE,
   gaussianRng |-> NewGaussianRNG(DefaultSeed)]

\* init that allocates the active buffers with batchSize slots
init_buffersOfBatchSize(s, c) ==
  LET angleStep == TwoPi \div c.angleSamples
  IN  [s EXCEPT
         !.cfg = c,
         !.kernel = compileKernel(c.kernel),
         !.candidateCos = [i \in 1..c.angleSamples |-> Cos((i - 1) * angleStep)],
         !.candidateSin = [i \in 1..c.angleSamples |-> Sin((i - 1) * angleStep)],
         !.activeXs = [i \in 1..c.batchSize |-> 0],
         !.activeYs = [i \in 1..c.batchSize |-> 0],
         !.gaussianRng = RngReset(s.gaussianRng, c.noise.seed)]

\* Simulator.init; when compileKernel throws, only cfg has been assigned
init(s, c) ==
  LET angleStep == TwoPi \div c.angleSamples
  IN  IF compileKernel(c.kernel) = Thrown THEN [s EXCEPT !.cfg = c]
      ELSE
      [s EXCEPT
         !.cfg = c,
         !.kernel = compileKernel(c.kernel),
         !.candidateCos = [i \in 1..c.angleSamples |-> Cos((i - 1) * angleStep)],
         !.candidateSin = [i \in 1..c.angleSamples |-> Sin((i - 1) * angleStep)],
         !.activeXs = [i \in 1..c.totalPrimordia |-> 0],
         !.activeYs = [i \in 1..c.totalPrimordia |-> 0],
         !.gaussianRng = RngReset(s.gaussianRng, c.noise.seed)]

\* Simulator.addPrimordium
addPrimordium(s, theta) ==
  [s EXCEPT !.primordia =
     Append(s.primordia,
            [r |-> s.cfg.R, theta |-> theta, ct |-> Cos(theta), st |-> Sin(theta)])]

\* reset that leaves the boundary index of the previous run
reset_keepBoundary(s) ==
  addPrimordium(
    [s EXCEPT !.primordia = <<>>,
              !.warnedOverflow = FALSE,
              !.activeCount = 0,
              !.gaussianRng = RngReset(s.gaussianRng, s.cfg.noise.seed)],
    0)

\* reset that does not reseed the noise generator
reset_noReseed(s) ==
  addPrimordium(
    [s EXCEPT !.primordia = <<>>,
              !.firstActiveIndex = 0,
              !.warnedOverflow = FALSE,
              !.activeCount = 0],
    0)

\* Simulator.reset
reset(s) ==
  addPrimordium(
    [s EXCEPT !.primordia = <<>>,
              !.firstActiveIndex = 0,
              !.warnedOverflow = FALSE,
              !.activeCount = 0,
              !.gaussianRng = RngReset(s.gaussianRng, s.cfg.noise.seed)],
    0)

\* drift whose loop starts at the second organ
driftAllPrimordia_skipFirst(s) ==
  LET drift == s.cfg.v * s.cfg.dt
  IN  [s EXCEPT !.primordia =
         [i \in 1..Len(s.primordia) |->
            IF i = 1 THEN s.primordia[i]
            ELSE [s.primordia[i] EXCEPT !.r = s.primordia[i].r + drift]]]

\* Simulator.driftAllPrimordia
driftAllPrimordia(s) ==
  LET drift == s.cfg.v * s.cfg.dt
  IN  [s EXCEPT !.primordia =
         [i \in 1..Len(s.primordia) |->
            [s.primordia[i] EXCEPT !.r = s.primordia[i].r + drift]]]

\* boundary advance that also skips an organ with r = maxR
RECURSIVE advanceFirstActiveIndex_ge(_)
advanceFirstActiveIndex_ge(s) ==
  IF /\ s.firstActiveIndex < Len(s.primordia)
     /\ s.primordia[s.firstActiveIndex + 1].r >= s.cfg.maxR
    THEN advanceFirstActiveIndex_ge([s EXCEPT !.firstActiveIndex = s.firstActiveIndex + 1])
    ELSE s

\* Simulator.advanceFirstActiveIndex
RECURSIVE advanceFirstActiveIndex(_)
advanceFirstActiveIndex(s) ==
  IF /\ s.firstActiveIndex < Len(s.primordia)
     /\ s.primordia[s.firstActiveIndex + 1].r > s.cfg.maxR
    THEN advanceFirstActiveIndex([s EXCEPT !.firstActiveIndex = s.firstActiveIndex + 1])
    ELSE s

\* the loop of buildActiveArrays, from index i
RECURSIVE BuildLoop(_, _)
BuildLoop(s, i) ==
  IF i >= Len(s.primordia) THEN s
  ELSE IF s.activeCount >= Len(s.activeXs)
    THEN [s EXCEPT !.warnedOverflow = TRUE]
    ELSE LET p == s.primordia[i + 1]
         IN  BuildLoop(
               [s EXCEPT !.activeXs[s.activeCount + 1] = TruncDiv(p.r * p.ct, TrigScale),
                         !.activeYs[s.activeCount + 1] = TruncDiv(p.r * p.st, TrigScale),
                         !.activeCount = s.activeCount + 1],
               i + 1)

\* Simulator.buildActiveArrays
buildActiveArrays(s) == BuildLoop([s EXCEPT !.activeCount = 0], s.firstActiveIndex)

\* Euclidean distance of the candidate point (cx, cy) to active organ j
Distance(s, cx, cy, j) ==
  LET dx == cx - s.activeXs[j + 1]
      dy == cy - s.activeYs[j + 1]
  IN  Sqrt(dx * dx + dy * dy)

\* the loop with the penalty added to the sum instead of returned
RECURSIVE FieldLoop_sumsPenalty(_, _, _, _, _)
FieldLoop_sumsPenalty(s, cx, cy, j, sum) ==
  IF j >= s.activeCount THEN sum
  ELSE LET d == Distance(s, cx, cy, j)
       IN  IF s.kernel.hasHardCore /\ d < s.kernel.d0
             THEN FieldLoop_sumsPenalty(s, cx, cy, j + 1, sum + HARD_CORE_PENALTY)
             ELSE FieldLoop_sumsPenalty(s, cx, cy, j + 1,
                                        sum + KernelFn(s.kernel.fn, d))

\* the loop of fieldAtIndex, from active organ j with partial sum sum
RECURSIVE FieldLoop(_, _, _, _, _)
FieldLoop(s, cx, cy, j, sum) ==
  IF j >= s.activeCount THEN sum
  ELSE LET d == Distance(s, cx, cy, j)
       IN  IF s.kernel.hasHardCore /\ d < s.kernel.d0
             THEN HARD_CORE_PENALTY
             ELSE FieldLoop(s, cx, cy, j + 1, sum + KernelFn(s.kernel.fn, d))

\* fieldAtIndex of findMinimumFieldAngle
fieldAtIndex(s, i) ==
  FieldLoop(s, TruncDiv(s.cfg.R * s.candidateCos[i + 1], TrigScale),
               TruncDiv(s.cfg.R * s.candidateSin[i + 1], TrigScale), 0, 0)

\* the single pass with <= in place of <: the last minimum wins
RECURSIVE ScanMin_lastWins(_, _, _, _)
ScanMin_lastWins(s, i, minVal, iMin) ==
  IF i >= s.cfg.angleSamples THEN [minVal |-> minVal, iMin |-> iMin]
  ELSE LET f == fieldAtIndex(s, i)
       IN  IF f <= minVal THEN ScanMin_lastWins(s, i + 1, f, i)
                          ELSE ScanMin_lastWins(s, i + 1, minVal, iMin)

\* the single pass for the discrete minimum, from candidate i
RECURSIVE ScanMin(_, _, _, _)
ScanMin(s, i, minVal, iMin) ==
  IF i >= s.cfg.angleSamples THEN [minVal |-> minVal, iMin |-> iMin]
  ELSE LET f == fieldAtIndex(s, i)
       IN  IF f < minVal THEN ScanMin(s, i + 1, f, i)
                         ELSE ScanMin(s, i + 1, minVal, iMin)

\* the threshold 1e-12 on |denom|, which is below the fixed-point resolution
DenomEps == 0

\* the parabolic offset without the clamp to half a step
RefinedOffset_noClamp(f0, f1, f2, angleStep) ==
  LET denom == 2 * (f0 - 2 * f1 + f2)
  IN  IF Abs(denom) > DenomEps
        THEN TruncDiv((f0 - f2) * angleStep, denom)
        ELSE 0

\* the clamped parabolic offset, in angle units: (refinedIndex - iMin) * angleStep
RefinedOffset(f0, f1, f2, angleStep) ==
  LET denom == 2 * (f0 - 2 * f1 + f2)
  IN  IF Abs(denom) > DenomEps
        THEN Max2(-(angleStep \div 2),
                  Min2(angleStep \div 2, TruncDiv((f0 - f2) * angleStep, denom)))
        ELSE 0

\* the conversion of theta to [0, 2*pi) at the end of findMinimumFieldAngle
AddTurnIfNegative(theta) == IF theta < 0 THEN theta + TwoPi ELSE theta

SubTurnIfOver(theta) == IF theta >= TwoPi THEN theta - TwoPi ELSE theta

\* the neighbour indices iL and iR of iMin
LeftIndex(iMin, angleSamples) == IF iMin = 0 THEN angleSamples - 1 ELSE iMin - 1

RightIndex(iMin, angleSamples) == IF iMin = angleSamples - 1 THEN 0 ELSE iMin + 1

\* findMinimumFieldAngle after the scan found m
RefineAt(s, m, angleStep) ==
  SubTurnIfOver(AddTurnIfNegative(
    m.iMin * angleStep
      + RefinedOffset(fieldAtIndex(s, LeftIndex(m.iMin, s.cfg.angleSamples)),
                      m.minVal,
                      fieldAtIndex(s, RightIndex(m.iMin, s.cfg.angleSamples)),
                      angleStep)))

\* Simulator.findMinimumFieldAngle
findMinimumFieldAngle(s) ==
  RefineAt(s, ScanMin(s, 0, PosInfinity, 0), TwoPi \div s.cfg.angleSamples)

\* steps 1 to 3 of step(): the engine when the field is evaluated
FieldEvaluationState(s) ==
  buildActiveArrays(advanceFirstActiveIndex(driftAllPrimordia(s)))

\* steps 4 to 6 of step(): locate the minimum, apply noise, append the organ
PlaceOrgan(s3) ==
  LET thetaStar == findMinimumFieldAngle(s3)
      n == RngNext(s3.gaussianRng)
      noise == TruncDiv(n.val * s3.cfg.noise.sigmaThetaDeg, TrigScale)
  IN  IF s3.cfg.noise.enabled
        THEN addPrimordium([s3 EXCEPT !.gaussianRng = n.g],
                           wrapAngle(thetaStar + noise))
        ELSE addPrimordium(s3, thetaStar)

\* step without the completion check
step_noGuard(s) == PlaceOrgan(FieldEvaluationState(s))

\* step whose completion check is > instead of >=
step_offByOne(s) ==
  IF Len(s.primordia) > s.cfg.totalPrimordia THEN s
  ELSE PlaceOrgan(FieldEvaluationState(s))

\* Simulator.step
step(s) ==
  IF Len(s.primordia) >= s.cfg.totalPrimordia THEN s
  ELSE PlaceOrgan(FieldEvaluationState(s))

\* the loop of runBatch
RECURSIVE BatchLoop(_, _, _)
BatchLoop(s, batchEnd, stepsRun) ==
  IF Len(s.primordia) < batchEnd
    THEN BatchLoop(step(s), batchEnd, stepsRun + 1)
    ELSE [s |-> s, stepsRun |-> stepsRun]

\* runBatch that returns the configured batch size
runBatch_returnsBatchSize(s) ==
  [s |-> BatchLoop(s, Min2(Len(s.primordia) + s.cfg.batchSize,
                            s.cfg.totalPrimordia), 0).s,
   stepsRun |-> s.cfg.batchSize]

\* Simulator.runBatch: the engine after the call and the value returned
runBatch(s) ==
  BatchLoop(s, Min2(Len(s.primordia) + s.cfg.batchSize, s.cfg.totalPrimordia), 0)

\* Simulator.isComplete
isComplete(s) == Len(s.primordia) >= s.cfg.totalPrimordia

\* the inner loop with the penalty added to the sum before the break
RECURSIVE ValueLoop_addsPenalty(_, _, _, _, _)
ValueLoop_addsPenalty(s, cx, cy, j, sum) ==
  IF j >= s.activeCount THEN sum
  ELSE LET d == Distance(s, cx, cy, j)
       IN  IF s.kernel.hasHardCore /\ d < s.kernel.d0
             THEN sum + HARD_CORE_PENALTY
             ELSE ValueLoop_addsPenalty(s, cx, cy, j + 1,
                                        sum + KernelFn(s.kernel.fn, d))

\* the inner loop of getFieldValues, from active organ j with partial sum sum
RECURSIVE ValueLoop(_, _, _, _, _)
ValueLoop(s, cx, cy, j, sum) ==
  IF j >= s.activeCount THEN sum
  ELSE LET d == Distance(s, cx, cy, j)
       IN  IF s.kernel.hasHardCore /\ d < s.kernel.d0
             THEN HARD_CORE_PENALTY
             ELSE ValueLoop(s, cx, cy, j + 1, sum + KernelFn(s.kernel.fn, d))

\* the array filled by getFieldValues from the active buffers of s
FieldValues(s) ==
  [i \in 1..s.cfg.angleSamples |->
     ValueLoop(s, TruncDiv(s.cfg.R * s.candidateCos[i], TrigScale),
                  TruncDiv(s.cfg.R * s.candidateSin[i], TrigScale), 0, 0)]

\* getFieldValues that first rebuilds the active buffers
getFieldValues_rebuild(s) ==
  LET s1 == buildActiveArrays(advanceFirstActiveIndex(s))
  IN  [s |-> s1, values |-> FieldValues(s1)]

\* Simulator.getFieldValues: the engine after the call and the array returned
getFieldValues(s) == [s |-> s, values |-> FieldValues(s)]

\* the default window of computeDivergenceMetrics
DefaultWindow == 200

\* one delta of computeDivergenceMetrics: wrapped into [0, 2*pi), then
\* multiplied by 180 / pi
DeltaDegrees(thetaPrev, theta) ==
  LET delta == theta - thetaPrev
      wrapped == JsRem(JsRem(delta, TwoPi) + TwoPi, TwoPi)
  IN  TruncDiv(wrapped * 180, TwoPi \div 2)

RECURSIVE Sum(_)
Sum(seq) == IF seq = <<>> THEN 0 ELSE Head(seq) + Sum(Tail(seq))

\* Simulator.computeDivergenceMetrics(N): mean and stdDev in whole degrees
computeDivergenceMetrics(s, N) ==
  LET n == Len(s.primordia)
      startIdx == Max2(1, n - N)
      deltas == [k \in 1..(n - startIdx) |->
                   DeltaDegrees(s.primordia[startIdx + k - 1].theta,
                                s.primordia[startIdx + k].theta)]
      count == Len(deltas)
      mean == TruncDiv(Sum(deltas), count)
      variance == TruncDiv(Sum([k \in 1..count |->
                                  (deltas[k] - mean) * (deltas[k] - mean)]), count)
  IN  IF count = 0 THEN [mean |-> 0, stdDev |-> 0, count |-> 0]
      ELSE [mean |-> mean, stdDev |-> Sqrt(variance), count |-> count]

\* n consecutive calls of step()
RECURSIVE StepN(_, _)
StepN(s, n) == IF n = 0 THEN s ELSE StepN(step(s), n - 1)

\* ------------------------------------------------------------------------
\* State
\* ------------------------------------------------------------------------

VARIABLES
  phase,       \* "Uninitialized", "Ready" (after init), "Seeded" (after reset)
  simulator,   \* the Simulator object: a record of its fields
  ret          \* the most recent call and the value it returned

vars == <<phase, simulator, ret>>

Init ==
  /\ phase = "Uninitialized"
  /\ simulator = NewSimulator
  /\ ret = [op |-> "new"]

\* ------------------------------------------------------------------------
\* Calls of the host on the engine
\* ------------------------------------------------------------------------

\* init(c) on a newly constructed engine, c accepted by validateConfig
InitCall ==
  /\ phase = "Uninitialized"
  /\ \E c \in Configs :
       /\ validateConfig(c)
       /\ simulator' = init(simulator, c)
  /\ phase' = "Ready"
  /\ ret' = [op |-> "init"]

ResetCall ==
  /\ phase # "Uninitialized"
  /\ simulator' = reset(simulator)
  /\ phase' = "Seeded"
  /\ ret' = [op |-> "reset"]

StepCall ==
  /\ phase # "Uninitialized"
  /\ simulator' = step(simulator)
  /\ ret' = [op |-> "step"]
  /\ UNCHANGED phase

RunBatchCall ==
  /\ phase # "Uninitialized"
  /\ LET b == runBatch(simulator)
     IN  /\ simulator' = b.s
         /\ ret' = [op |-> "runBatch", value |-> b.stepsRun]
  /\ UNCHANGED phase

GetFieldValuesCall ==
  /\ phase # "Uninitialized"
  /\ LET g == getFieldValues(simulator)
     IN  /\ simulator' = g.s
         /\ ret' = [op |-> "getFieldValues", value |-> g.values]
  /\ UNCHANGED phase

Next ==
  \/ InitCall
  \/ ResetCall
  \/ StepCall
  \/ RunBatchCall
  \/ GetFieldValuesCall

Spec == Init /\ [][Next]_vars

\* ------------------------------------------------------------------------
\* Properties
\* ------------------------------------------------------------------------

Initialized == phase # "Uninitialized"

OrganCount == Len(simulator.primordia)

\* C1: after init(config) the organ count never exceeds totalPrimordia, and
\* no step() or runBatch() call decreases the organ count.
C1_CountBoundedAndNonDecreasing ==
  [][/\ phase' # "Uninitialized" =>
          Len(simulator'.primordia) <= simulator'.cfg.totalPrimordia
     /\ ret'.op \in {"step", "runBatch"} =>
          Len(simulator'.primordia) >= Len(simulator.primordia)]_vars

\* a runBatch() call on a complete engine: nothing is run, the count is the target
C1_Witness ==
  /\ Initialized
  /\ ret.op = "runBatch"
  /\ ret.value = 0
  /\ OrganCount = simulator.cfg.totalPrimordia
  /\ OrganCount = MaxTotal

\* C2: after reset() and any number of step() calls, radii are non-increasing
\* with birth index: r(i) >= r(j) for all i < j.
C2_MonotonicRadius ==
  phase = "Seeded" =>
    \A i, j \in 1..OrganCount :
      i < j => simulator.primordia[i].r >= simulator.primordia[j].r

\* a run with at least three organs, the oldest beyond maxR
C2_Witness ==
  /\ phase = "Seeded"
  /\ OrganCount >= 3
  /\ simulator.primordia[1].r > simulator.cfg.maxR
  /\ simulator.primordia[OrganCount].r = simulator.cfg.R

\* the organ sequence of a newly constructed engine after init(c), reset()
\* and n calls of step()
ReferenceRun(c, n) == StepN(reset(init(NewSimulator, c)), n).primordia

\* C3: reset() followed by N step() calls yields the same organ sequence
\* whatever was performed on the engine before the reset().
C3_Determinism ==
  phase = "Seeded" =>
    simulator.primordia = ReferenceRun(simulator.cfg, OrganCount - 1)

\* noise enabled, one step after a reset(), and the second slot of the active
\* buffers still holds a coordinate written by an earlier run
C3_Witness ==
  /\ phase = "Seeded"
  /\ simulator.cfg.noise.enabled
  /\ OrganCount = 2
  /\ simulator.activeCount = 1
  /\ simulator.activeXs[2] # 0

\* C4: when step() reaches field evaluation, the active buffers hold exactly
\* the organs with r <= maxR, and these are the suffix from firstActiveIndex.
C4_ActiveSuffixExact ==
  (Initialized /\ ~isComplete(simulator)) =>
    LET e == FieldEvaluationState(simulator)
        n == Len(e.primordia)
    IN  /\ \A i \in 0..(n - 1) :
             (i < e.firstActiveIndex) = (e.primordia[i + 1].r > e.cfg.maxR)
        /\ e.activeCount = n - e.firstActiveIndex
        /\ \A j \in 0..(e.activeCount - 1) :
             LET q == e.primordia[e.firstActiveIndex + j + 1]
             IN  /\ e.activeXs[j + 1] = TruncDiv(q.r * q.ct, TrigScale)
                 /\ e.activeYs[j + 1] = TruncDiv(q.r * q.st, TrigScale)

\* a field evaluation with an organ behind the boundary and two active ones,
\* the older of them at r = maxR
C4_Witness ==
  /\ Initialized
  /\ ~isComplete(simulator)
  /\ LET e == FieldEvaluationState(simulator)
     IN  /\ e.firstActiveIndex >= 1
         /\ e.activeCount >= 2
         /\ e.primordia[e.firstActiveIndex + 1].r = e.cfg.maxR

\* C5: the boundary index never decreases across step()/runBatch(), and never
\* exceeds the organ count (it starts at 0 and advances by one per organ
\* passed, so it counts the advances of the run).
C5_BoundaryForwardOnly ==
  [][/\ ret'.op \in {"step", "runBatch"} =>
          simulator'.firstActiveIndex >= simulator.firstActiveIndex
     /\ phase' # "Uninitialized" =>
          /\ simulator'.firstActiveIndex >= 0
          /\ simulator'.firstActiveIndex <= Len(simulator'.primordia)]_vars

\* a step() or runBatch() of a run after which two organs are behind the boundary
C5_Witness ==
  /\ phase = "Seeded"
  /\ ret.op \in {"step", "runBatch"}
  /\ simulator.firstActiveIndex >= 2
  /\ simulator.firstActiveIndex < OrganCount

\* C6: when the organ count has reached totalPrimordia, step() changes
\* nothing of the engine.
C6_StepNoOpWhenComplete ==
  [][(ret'.op = "step" /\ isComplete(simulator)) => simulator' = simulator]_vars

\* a step() call returned on a complete engine
C6_Witness ==
  /\ Initialized
  /\ ret.op = "step"
  /\ isComplete(simulator)
  /\ simulator.cfg.noise.enabled

\* C7: runBatch() started with n organs performs exactly
\* min(batchSize, max(0, totalPrimordia - n)) step() calls and returns that number.
C7_RunBatchCount ==
  [][ret'.op = "runBatch" =>
       LET n == Len(simulator.primordia)
           k == Min2(simulator.cfg.batchSize,
                     Max2(0, simulator.cfg.totalPrimordia - n))
       IN  /\ ret'.value = k
           /\ simulator' = StepN(simulator, k)
           /\ Len(simulator'.primordia) = n + k]_vars

\* a batch cut short by the target
C7_Witness ==
  /\ Initialized
  /\ ret.op = "runBatch"
  /\ ret.value > 0
  /\ ret.value < simulator.cfg.batchSize

\* C8: after reset() the history is exactly one organ with theta = 0 and
\* r = R, the boundary index is 0 and the noise generator is as newly
\* constructed for the configured seed.
C8_ResetState ==
  ret.op = "reset" =>
    /\ OrganCount = 1
    /\ simulator.primordia[1].theta = 0
    /\ simulator.primordia[1].r = simulator.cfg.R
    /\ simulator.firstActiveIndex = 0
    /\ simulator.gaussianRng = NewGaussianRNG(simulator.cfg.noise.seed)

\* a reset() of an engine that has run with noise: a buffer slot is stale
C8_Witness ==
  /\ ret.op = "reset"
  /\ simulator.cfg.noise.enabled
  /\ simulator.activeXs[1] # 0

\* the field over the organs that are active at the time of the call: all
\* organs of the history with r <= maxR, in birth order
CurrentActiveSet(s) == SelectSeq(s.primordia, LAMBDA q : q.r <= s.cfg.maxR)

FieldOfCurrentActiveSet(s) ==
  LET act == CurrentActiveSet(s)
  IN  FieldValues(
        [s EXCEPT
           !.activeXs = [j \in 1..Len(act) |-> TruncDiv(act[j].r * act[j].ct, TrigScale)],
           !.activeYs = [j \in 1..Len(act) |-> TruncDiv(act[j].r * act[j].st, TrigScale)],
           !.activeCount = Len(act)])

\* C9: getFieldValues() returns the field summed over the organs active at
\* the time of the call, the most recently placed organ included.
C9_FieldOfCurrentSet ==
  (phase = "Seeded" /\ ret.op = "getFieldValues") =>
    ret.value = FieldOfCurrentActiveSet(simulator)

\* C10: getFieldValues() leaves the engine as it was.
C10_GetFieldValuesPure ==
  [][ret'.op = "getFieldValues" => simulator' = simulator]_vars

\* a getFieldValues() call between two steps of a run
C10_Witness ==
  /\ phase = "Seeded"
  /\ ret.op = "getFieldValues"
  /\ OrganCount >= 2
  /\ ~isComplete(simulator)
  /\ \E i \in 1..simulator.cfg.angleSamples : ret.value[i] # 0

\* ------------------------------------------------------------------------
\* Hard-core exclusion (hardCoreExp) under configurations validateConfig accepts
\* ------------------------------------------------------------------------

\* hardCoreExp kernels: d0 below R, and d0 >= R, for which validateConfig
\* pushes a warning and no error
HardCoreKernels ==
  { [type |-> "hardCoreExp", A |-> 1, lambda |-> 18, d0 |-> 60],
    [type |-> "hardCoreExp", A |-> 1, lambda |-> 18, d0 |-> 400] }

HardCoreConfigs ==
  { [R |-> g.R, v |-> g.v, dt |-> g.dt, maxR |-> g.maxR,
     angleSamples |-> MinAngleSamples, totalPrimordia |-> t, batchSize |-> b,
     kernel |-> k, noise |-> n, render |-> Render] :
      g \in Geometries, t \in MinTotalPrimordia..MaxTotal, b \in 1..MaxBatch,
      k \in HardCoreKernels, n \in Noises }

\* init(c) on a newly constructed engine, c a hardCoreExp configuration
\* accepted by validateConfig
HardCoreInitCall ==
  /\ phase = "Uninitialized"
  /\ \E c \in HardCoreConfigs :
       /\ validateConfig(c)
       /\ simulator' = init(simulator, c)
  /\ phase' = "Ready"
  /\ ret' = [op |-> "init"]

NextHardCore ==
  \/ HardCoreInitCall
  \/ ResetCall
  \/ StepCall
  \/ RunBatchCall
  \/ GetFieldValuesCall

SpecHardCore == Init /\ [][NextHardCore]_vars

\* the field value at the discrete minimum step() would find in engine s
ChosenFieldValue(s) == ScanMin(FieldEvaluationState(s), 0, PosInfinity, 0).minVal

\* C11: with the hardCoreExp kernel and a configuration accepted by
\* validateConfig, the field value at the angle a step() chooses is never the
\* exclusion penalty.
C11_NoSentinelAtChosenAngle ==
  (Initialized /\ simulator.kernel.hasHardCore /\ ~isComplete(simulator)) =>
    ChosenFieldValue(simulator) < HARD_CORE_PENALTY

\* ------------------------------------------------------------------------
\* Parabolic refinement on its own
\* ------------------------------------------------------------------------

\* field values f(m-1), f(m), f(m+1) handed to the refinement
FieldSamples == (0..MaxField) \cup {HARD_CORE_PENALTY}

\* the angular step of the coarsest grid validateConfig accepts
CoarseAngleStep == TwoPi \div MinAngleSamples

\* the refinement of findMinimumFieldAngle applied to one triple
RefineCall ==
  /\ \E f0, f1, f2 \in FieldSamples :
       ret' = [op |-> "refine", f0 |-> f0, f1 |-> f1, f2 |-> f2,
               value |-> RefinedOffset(f0, f1, f2, CoarseAngleStep)]
  /\ UNCHANGED <<phase, simulator>>

NextRefine == RefineCall

SpecRefine == Init /\ [][NextRefine]_vars

InitRng ==
  /\ phase = "Uninitialized"
  /\ simulator = NewSimulator
  /\ ret = [op |-> "new", seed |-> DefaultSeed, reseeded |-> FALSE,
            before |-> 0, k |-> 0, value |-> 0]

RngNextCall ==
  /\ ret.k < MaxDraws
  /\ LET n == RngNext(simulator.gaussianRng)
     IN  /\ simulator' = [simulator EXCEPT !.gaussianRng = n.g]
         /\ ret' = [ret EXCEPT !.op = "next", !.k = ret.k + 1, !.value = n.val]
  /\ UNCHANGED phase

RngResetCall ==
  /\ \E seed \in 0..MaxSeed :
       /\ simulator' = [simulator EXCEPT !.gaussianRng = RngReset(@, seed)]
       /\ ret' = [op |-> "reset", seed |-> seed, reseeded |-> TRUE,
                  before |-> ret.k, k |-> 0, value |-> 0]
  /\ UNCHANGED phase

NextRng == RngNextCall \/ RngResetCall

SpecRng == InitRng /\ [][NextRng]_vars

\* the generator and the value returned after k >= 1 calls of next() on g
RECURSIVE DrawN(_, _)
DrawN(g, k) == IF k = 1 THEN RngNext(g) ELSE DrawN(RngNext(g).g, k - 1)

\* C13: reset(seed) leaves no cached spare, and after any number of next()
\* calls followed by reset(seed) the k-th next() returns what the k-th next()
\* of a newly constructed GaussianRNG(seed) returns, for every k.
C13_ResetEqualsFresh ==
  /\ (ret.op = "reset") =>
        simulator.gaussianRng = NewGaussianRNG(ret.seed)
  /\ (ret.op = "next" /\ ret.reseeded) =>
        LET fresh == DrawN(NewGaussianRNG(ret.seed), ret.k)
        IN  /\ ret.value = fresh.val
            /\ simulator.gaussianRng = fresh.g

\* a reset after an odd number of next() calls, with a spare sample cached,
\* then two next() calls
C13_Witness ==
  /\ ret.op = "next"
  /\ ret.reseeded
  /\ ret.before = 1
  /\ ret.k = 2
  /\ ret.value # 0

\* ------------------------------------------------------------------------
\* Compiled kernels on their own
\* ------------------------------------------------------------------------

\* the parameters of a custom kernel, in the ranges validateConfig accepts
CustomParams ==
  [A |-> 1, lambda |-> 18, sigma |-> 40, p |-> 2, eps |-> 1, d0 |-> 60]

\* custom kernels whose expression parses
CustomKernels ==
  { [type |-> "custom", expr |-> e, params |-> CustomParams] :
      e \in {ExprDecay, ExprPole, ExprRoot, ExprUnbound} }

\* every kernel variant, softPower also with eps = 0 (the least eps
\* validateConfig accepts)
KernelChoices ==
  Kernels \cup HardCoreKernels \cup CustomKernels
    \cup { [type |-> "softPower", A |-> 1, p |-> 2, eps |-> 0] }

DistanceStep == 25

Distances == { i * DistanceStep : i \in 0..MaxDistanceIndex }

\* compileKernel(k).fn(d) for a kernel k that validateConfig accepts
KernelFnCall ==
  /\ \E k \in KernelChoices, d \in Distances :
       /\ validKernel(k)
       /\ LET fn == compileKernel(k).fn
          IN  ret' = [op |-> "fn", kernel |-> k, d |-> d,
                      threw |-> IF k.type = "custom" THEN CustomCall(fn, d).threw
                                ELSE FALSE,
                      value |-> KernelFn(fn, d)]
  /\ UNCHANGED <<phase, simulator>>

NextKernel == KernelFnCall

SpecKernel == Init /\ [][NextKernel]_vars

\* the evaluation of the expression of custom kernel k at distance d failed:
\* it threw or its result is not finite
EvaluationFailed(k, d) ==
  \/ Evaluate(k.expr, Scope([scope |-> k.params], d)).threw
  \/ ~IsFinite(Evaluate(k.expr, Scope([scope |-> k.params], d)).value)

\* C14: for every kernel variant and every d >= 0 the call of the compiled
\* kernel does not raise and returns a finite number, which is the penalty
\* when the evaluation failed.
C14_KernelNeverFails ==
  ret.op = "fn" =>
    /\ ~ret.threw
    /\ IsFinite(ret.value)
    /\ (ret.kernel.type = "custom" /\ EvaluationFailed(ret.kernel, ret.d)) =>
          ret.value = CUSTOM_BAD_PENALTY

\* ------------------------------------------------------------------------
\* Custom kernels in the engine, init() called without validation
\* ------------------------------------------------------------------------

\* custom-kernel configurations, the cut-off expression included
CustomConfigs ==
  { [R |-> 100, v |-> 25, dt |-> 2, maxR |-> 200,
     angleSamples |-> MinAngleSamples, totalPrimordia |-> t, batchSize |-> b,
     kernel |-> [type |-> "custom", expr |-> e, params |-> CustomParams],
     noise |-> [enabled |-> FALSE, sigmaThetaDeg |-> 0, seed |-> DefaultSeed],
     render |-> Render] :
      t \in MinTotalPrimordia..MaxTotal, b \in 1..MaxBatch,
      e \in {ExprDecay, ExprPole, ExprRoot, ExprUnbound, ExprCutOff} }

\* init(c) on an engine no init() has succeeded on; when compileKernel
\* throws, init() throws and the engine stays without kernel
CustomInitCall ==
  /\ phase = "Uninitialized"
  /\ \E c \in CustomConfigs :
       /\ simulator' = init(simulator, c)
       /\ phase' = IF compileKernel(c.kernel) = Thrown
                     THEN "Uninitialized" ELSE "Ready"
       /\ ret' = [op |-> "init", expr |-> c.kernel.expr,
                  threw |-> compileKernel(c.kernel) = Thrown]

NextCustom ==
  \/ CustomInitCall
  \/ ResetCall
  \/ StepCall
  \/ RunBatchCall
  \/ GetFieldValuesCall

SpecCustom == Init /\ [][NextCustom]_vars

\* the distances the kernel is called with when the field is summed over the
\* active buffers of s
EvaluationDistances(s) ==
  { Distance(s, TruncDiv(s.cfg.R * s.candidateCos[i], TrigScale),
                TruncDiv(s.cfg.R * s.candidateSin[i], TrigScale), j) :
      i \in 1..s.cfg.angleSamples, j \in 0..(s.activeCount - 1) }

\* C15: init() with a malformed expression raises, and validateExpression
\* returns a message for it; after an init() that succeeded, no kernel call
\* of getFieldValues() or of the next step() raises, whatever the expression
\* evaluates to.
C15_CompileTimeOnly ==
  /\ ret.op = "init" =>
       /\ ret.threw = ~Parses(ret.expr)
       /\ ret.threw = (validateExpression(ret.expr) # Null)
       /\ ret.threw => phase = "Uninitialized"
  /\ Initialized =>
       /\ \A d \in EvaluationDistances(simulator) :
            ~CustomCall(simulator.kernel.fn, d).threw
       /\ ~isComplete(simulator) =>
            \A e \in {FieldEvaluationState(simulator)} :
              \A d \in EvaluationDistances(e) : ~CustomCall(e.kernel.fn, d).threw

\* a step() with two active organs, the expression naming a variable the
\* scope does not hold: each evaluation throws inside the kernel
C15_Witness ==
  /\ phase = "Seeded"
  /\ ret.op = "step"
  /\ simulator.kernel.fn.expr = ExprUnbound
  /\ simulator.activeCount = 2
  /\ OrganCount = 3

\* ------------------------------------------------------------------------
\* init() on an engine that has already run
\* ------------------------------------------------------------------------

\* the configurations the host applies one after the other
ReinitConfigs ==
  { [R |-> g.R, v |-> g.v, dt |-> g.dt, maxR |-> g.maxR,
     angleSamples |-> MinAngleSamples, totalPrimordia |-> t,
     batchSize |-> MaxBatch,
     kernel |-> [type |-> "exp", A |-> 1, lambda |-> 18],
     noise |-> [enabled |-> FALSE, sigmaThetaDeg |-> 0, seed |-> DefaultSeed],
     render |-> Render] :
      g \in Geometries, t \in MinTotalPrimordia..MaxTotal }

\* init(c) in any phase, c accepted by validateConfig
ReInitCall ==
  /\ \E c \in ReinitConfigs :
       /\ validateConfig(c)
       /\ simulator' = init(simulator, c)
  /\ phase' = "Ready"
  /\ ret' = [op |-> "init"]

NextReinit ==
  \/ ReInitCall
  \/ ResetCall
  \/ StepCall
  \/ RunBatchCall
  \/ GetFieldValuesCall

SpecReinit == Init /\ [][NextReinit]_vars

\* C16: in any sequence of init(), reset(), step() and runBatch() calls,
\* buildActiveArrays writes no more organs than the buffers hold
\* (totalPrimordia slots), copies every organ from the boundary on, and
\* warnedOverflow stays false.
C16_CapacityGuard ==
  Initialized =>
    /\ ~simulator.warnedOverflow
    /\ Len(simulator.activeXs) = simulator.cfg.totalPrimordia
    /\ ~isComplete(simulator) =>
         \A e \in {FieldEvaluationState(simulator)} :
           /\ e.activeCount <= Len(e.activeXs)
           /\ e.activeCount = Len(e.primordia) - e.firstActiveIndex
           /\ ~e.warnedOverflow

\* a step() that filled the buffers as far as a run can: two organs written
\* and one slot left
C16_Witness ==
  /\ Initialized
  /\ ret.op = "step"
  /\ simulator.activeCount = 2
  /\ simulator.activeCount = simulator.cfg.totalPrimordia - 1
  /\ simulator.activeXs[2] # 0

\* C17: after init(config) on an engine that has already run, no organ,
\* boundary index or active count of the previous run is left.
C17_InitReplacesState ==
  ret.op = "init" =>
    /\ simulator.primordia = <<>>
    /\ simulator.firstActiveIndex = 0
    /\ simulator.activeCount = 0

\* ------------------------------------------------------------------------
\* Divergence metrics
\* ------------------------------------------------------------------------

\* runs with and without noise, every target
MetricsConfigs ==
  { [R |-> 100, v |-> 25, dt |-> 2, maxR |-> 200,
     angleSamples |-> MinAngleSamples, totalPrimordia |-> t,
     batchSize |-> MaxBatch,
     kernel |-> [type |-> "exp", A |-> 1, lambda |-> 18],
     noise |-> n, render |-> Render] :
      t \in MinTotalPrimordia..MaxTotal, n \in Noises }

\* the windows the metrics are asked for: shorter than the history, and the
\* default
WindowSizes == {1, 2, DefaultWindow}

MetricsInitCall ==
  /\ phase = "Uninitialized"
  /\ \E c \in MetricsConfigs :
       /\ validateConfig(c)
       /\ simulator' = init(simulator, c)
  /\ phase' = "Ready"
  /\ ret' = [op |-> "init"]

\* computeDivergenceMetrics(N): the method assigns no field
ComputeDivergenceMetricsCall ==
  /\ phase # "Uninitialized"
  /\ \E N \in WindowSizes :
       ret' = [op |-> "computeDivergenceMetrics", N |-> N,
               value |-> computeDivergenceMetrics(simulator, N)]
  /\ UNCHANGED <<phase, simulator>>

NextMetrics ==
  \/ MetricsInitCall
  \/ ResetCall
  \/ StepCall
  \/ RunBatchCall
  \/ ComputeDivergenceMetricsCall

SpecMetrics == Init /\ [][NextMetrics]_vars

\* the statistics of the consecutive pairs inside the window of the last N
\* organs of history h: min(N, n) - 1 deltas
WindowMetrics(h, N) ==
  LET n == Len(h)
      w == Min2(N, n)
      deltas == [k \in 1..(w - 1) |->
                   DeltaDegrees(h[n - w + k].theta, h[n - w + k + 1].theta)]
      count == Len(deltas)
      mean == TruncDiv(Sum(deltas), count)
      variance == TruncDiv(Sum([k \in 1..count |->
                                  (deltas[k] - mean) * (deltas[k] - mean)]), count)
  IN  IF n < 2 \/ count = 0 THEN [mean |-> 0, stdDev |-> 0, count |-> 0]
      ELSE [mean |-> mean, stdDev |-> Sqrt(variance), count |-> count]

\* C18: computeDivergenceMetrics(N) returns count, mean and population
\* standard deviation of the min(N, n) - 1 wrapped deltas, in degrees, between
\* consecutive organs of the last N organs, and zeros when n < 2.
C18_WindowOfLastN ==
  ret.op = "computeDivergenceMetrics" =>
    ret.value = WindowMetrics(simulator.primordia, ret.N)

\* ------------------------------------------------------------------------
\* validateConfig on its own
\* ------------------------------------------------------------------------

\* kernels at and beyond the limits of the ranges, and a custom kernel whose
\* expression does not parse
CandidateKernels ==
  { [type |-> "exp", A |-> 1, lambda |-> l] : l \in {NaN, 0, 18} }
    \cup { [type |-> "gaussian", A |-> 1, sigma |-> g] : g \in {NaN, 0, 40} }
    \cup { [type |-> "softPower", A |-> 1, p |-> q, eps |-> e] :
             q \in {0, 2}, e \in {NaN, -1, 0} }
    \cup { [type |-> "hardCoreExp", A |-> a, lambda |-> l, d0 |-> 60] :
             a \in {1, PosInfinity}, l \in {-1, 18} }
    \cup { [type |-> "custom", expr |-> e, params |-> CustomParams] :
             e \in {ExprDecay, ExprCutOff} }

\* configurations handed to validateConfig: each field at, below and above
\* its limit, or NaN
CandidateConfigs ==
  { [R |-> r, v |-> v, dt |-> 2, maxR |-> m,
     angleSamples |-> a, totalPrimordia |-> t, batchSize |-> b,
     kernel |-> k,
     noise |-> [enabled |-> n[1], sigmaThetaDeg |-> n[2], seed |-> DefaultSeed],
     render |-> Render] :
      r \in {NaN, 0, 100}, v \in {0, 25}, m \in {100, 200},
      a \in {MinAngleSamples - 1, MinAngleSamples},
      t \in {MinTotalPrimordia - 1, MinTotalPrimordia}, b \in {0, 1},
      k \in CandidateKernels,
      n \in {<<FALSE, -1>>, <<TRUE, -1>>, <<TRUE, 0>>, <<FALSE, 0>>} }

\* one call of validateConfig, before anything else
ValidateConfigCall ==
  /\ ret.op = "new"
  /\ \E c \in CandidateConfigs :
       ret' = [op |-> "validateConfig", cfg |-> c, valid |-> validateConfig(c)]
  /\ UNCHANGED <<phase, simulator>>

NextValidate == ValidateConfigCall

SpecValidate == Init /\ [][NextValidate]_vars

\* a > b for numbers: false when an operand is NaN
Greater(a, b) == a # NaN /\ b # NaN /\ a > b

AtLeast(a, b) == a # NaN /\ b # NaN /\ a >= b

\* the ranges of the active kernel variant
KernelContract(k) ==
  CASE k.type = "exp"         -> Greater(k.lambda, 0)
    [] k.type = "gaussian"    -> Greater(k.sigma, 0)
    [] k.type = "softPower"   -> Greater(k.p, 0) /\ AtLeast(k.eps, 0)
    [] k.type = "hardCoreExp" -> Greater(k.lambda, 0)
    [] k.type = "custom"      -> Parses(k.expr)

\* the numeric contract of a configuration
ConfigContract(c) ==
  /\ Greater(c.R, 0)
  /\ Greater(c.v, 0)
  /\ Greater(c.dt, 0)
  /\ Greater(c.maxR, c.R)
  /\ AtLeast(c.angleSamples, MinAngleSamples)
  /\ AtLeast(c.totalPrimordia, MinTotalPrimordia)
  /\ AtLeast(c.batchSize, 1)
  /\ AtLeast(c.noise.sigmaThetaDeg, 0)
  /\ KernelContract(c.kernel)

\* C19: validateConfig(cfg) gives valid = true only if cfg satisfies the
\* numeric contract: R > 0, v > 0, dt > 0, maxR > R, angleSamples >= 36,
\* totalPrimordia >= 2, batchSize >= 1, noise sigma >= 0 and the ranges of the
\* active kernel variant.
C19_ValidImpliesContract ==
  (ret.op = "validateConfig" /\ ret.valid) => ConfigContract(ret.cfg)

\* ------------------------------------------------------------------------
\* The default run
\* ------------------------------------------------------------------------

\* defaultConfig() with noise disabled, lengths in hundredths: R = 1.0,
\* v = 0.02, dt = 1.0, maxR = 3.0, lambda = 0.18.  The grid has
\* MinAngleSamples candidates where defaultConfig() has 720, and the
\* capacity is the DefaultRunSteps + 1 organs the run creates where
\* defaultConfig() has 1000.
DefaultConfig ==
  [R |-> 100, v |-> 2, dt |-> 1, maxR |-> 300,
   angleSamples |-> MinAngleSamples, totalPrimordia |-> DefaultRunSteps + 1, batchSize |-> 30,
   kernel |-> [type |-> "exp", A |-> 1, lambda |-> 18],
   noise |-> [enabled |-> FALSE, sigmaThetaDeg |-> 0, seed |-> DefaultSeed],
   render |-> Render]

DefaultInitCall ==
  /\ phase = "Uninitialized"
  /\ validateConfig(DefaultConfig)
  /\ simulator' = init(simulator, DefaultConfig)
  /\ phase' = "Ready"
  /\ ret' = [op |-> "init"]

\* reset() right after init(), as the host calls it
DefaultResetCall ==
  /\ phase = "Ready"
  /\ ResetCall

\* step() of the run, up to DefaultRunSteps calls
DefaultStepCall ==
  /\ phase = "Seeded"
  /\ Len(simulator.primordia) <= DefaultRunSteps
  /\ StepCall

\* computeDivergenceMetrics() with its default window
DefaultMetricsCall ==
  /\ phase = "Seeded"
  /\ ret' = [op |-> "computeDivergenceMetrics", N |-> DefaultWindow,
             value |-> computeDivergenceMetrics(simulator, DefaultWindow)]
  /\ UNCHANGED <<phase, simulator>>

NextDefaultRun ==
  \/ DefaultInitCall
  \/ DefaultResetCall
  \/ DefaultStepCall
  \/ DefaultMetricsCall

SpecDefaultRun == Init /\ [][NextDefaultRun]_vars

\* C20: with the default exponential configuration and noise disabled, after
\* reset() and 100 step() calls computeDivergenceMetrics reports a mean
\* within 1 degree of 137.5 degrees and a standard deviation below 1 degree
\* (in whole degrees: a mean of 136, 137 or 138 and a deviation of 0).
C20_GoldenAngleAfter100Steps ==
  (ret.op = "computeDivergenceMetrics" /\ OrganCount = DefaultRunSteps + 1) =>
    /\ ret.value.mean \in 136..138
    /\ ret.value.stdDev < 1


\* ------------------------------------------------------------------------
\* The angle conversions in rounded arithmetic
\* ------------------------------------------------------------------------

\* angles of this section are in units of 1/Fine degree
Fine == 8

\* significant bits of a number: every sum is rounded to the nearest number
\* with this many bits, as the doubles of the source are rounded to 53
Mantissa == 10

\* 2 * Math.PI, which is a number of the format
TurnFine == TwoPi * Fine

\* the nearest number with Mantissa significant bits to x >= 0, ties to even
FlAbs(x) ==
  LET b  == BitLen(x)
      sh == IF b > Mantissa THEN Pow(2, b - Mantissa) ELSE 1
      q  == x \div sh
      r  == x % sh
  IN  IF 2 * r > sh \/ (2 * r = sh /\ q % 2 = 1) THEN (q + 1) * sh ELSE q * sh

\* the result of an addition or subtraction whose exact value is x
Fl(x) == IF x < 0 THEN -FlAbs(-x) ELSE FlAbs(x)

\* the two conditional corrections at the end of findMinimumFieldAngle
AddTurnIfNegativeFl(theta) == IF theta < 0 THEN Fl(theta + TurnFine) ELSE theta

SubTurnIfOverFl(theta) == IF theta >= TurnFine THEN Fl(theta - TurnFine) ELSE theta

\* wrapAngle; the remainder of % is exact
wrapAngleFl(theta) == AddTurnIfNegativeFl(JsRem(theta, TurnFine))

\* the angular step of the coarsest grid
FineAngleStep == TurnFine \div MinAngleSamples

\* the noise offsets added to a refined angle: small ones of either sign and
\* whole turns
NoiseOffsets ==
  ((-MaxNoise)..MaxNoise) \cup {-2 * TurnFine, -TurnFine, TurnFine, 2 * TurnFine}

\* the conversion of the refined index iMin + offset to an angle
ConvertCall ==
  /\ ret.op = "new"
  /\ \E iMin \in 0..(MinAngleSamples - 1),
        offset \in (-(FineAngleStep \div 2))..(FineAngleStep \div 2) :
       ret' = [op |-> "findMinimumFieldAngle", iMin |-> iMin, offset |-> offset,
               value |-> SubTurnIfOverFl(AddTurnIfNegativeFl(
                           Fl(iMin * FineAngleStep + offset)))]
  /\ UNCHANGED <<phase, simulator>>

\* thetaStar = wrapAngle(thetaStar + noiseRad) of step()
NoiseWrapCall ==
  /\ ret.op = "findMinimumFieldAngle"
  /\ \E noiseRad \in NoiseOffsets :
       ret' = [op |-> "wrapAngle", thetaStar |-> ret.value, noiseRad |-> noiseRad,
               value |-> wrapAngleFl(Fl(ret.value + noiseRad))]
  /\ UNCHANGED <<phase, simulator>>

NextWrap == ConvertCall \/ NoiseWrapCall

SpecWrap == Init /\ [][NextWrap]_vars

\* C21: the angle findMinimumFieldAngle returns is in [0, 2*pi) for every
\* discrete minimum index and every clamped offset, and the angle after noise
\* is in [0, 2*pi) for any noise value, positive or negative.
C21_ThetaInTurn ==
  ret.op \in {"findMinimumFieldAngle", "wrapAngle"} =>
    /\ ret.value >= 0
    /\ ret.value < TurnFine



\* ------------------------------------------------------------------------
\* The minimum scan of step()
\* ------------------------------------------------------------------------

\* the geometries of Configs and one whose organs are beyond maxR after
\* their first drift: the active set is empty at every field evaluation
ScanGeometries ==
  Geometries \cup { [R |-> 100, v |-> 60, dt |-> 1, maxR |-> 150] }

\* a decaying kernel, one with an exclusion radius that covers a part of the
\* ring, and one whose exclusion radius covers the ring
ScanKernels ==
  { [type |-> "exp", A |-> 1, lambda |-> 18] } \cup HardCoreKernels

ScanConfigs ==
  { [R |-> g.R, v |-> g.v, dt |-> g.dt, maxR |-> g.maxR,
     angleSamples |-> MinAngleSamples, totalPrimordia |-> t, batchSize |-> 1,
     kernel |-> k, noise |-> n, render |-> Render] :
      g \in ScanGeometries, t \in MinTotalPrimordia..MaxTotal,
      k \in ScanKernels, n \in Noises }

ScanInitCall ==
  /\ phase = "Uninitialized"
  /\ \E c \in ScanConfigs :
       /\ validateConfig(c)
       /\ simulator' = init(simulator, c)
  /\ phase' = "Ready"
  /\ ret' = [op |-> "init"]

\* the field over the candidates 0..angleSamples-1 of engine e (element
\* i + 1 is the value at candidate i)
FieldArray(e) == [i \in 1..e.cfg.angleSamples |-> fieldAtIndex(e, i - 1)]

\* what a step() evaluates: the active count, the field and the result of
\* the scan
Evaluation(e) ==
  [activeCount |-> e.activeCount, field |-> FieldArray(e),
   scan |-> ScanMin(e, 0, PosInfinity, 0)]

\* step() on an incomplete run; ret holds what the call evaluated
ScanStepCall ==
  /\ phase = "Seeded"
  /\ ~isComplete(simulator)
  /\ simulator' = step(simulator)
  /\ ret' = [op |-> "step", eval |-> Evaluation(FieldEvaluationState(simulator))]
  /\ UNCHANGED phase

NextScan ==
  \/ ScanInitCall
  \/ ResetCall
  \/ ScanStepCall

SpecScan == Init /\ [][NextScan]_vars

\* C22: the scan selects an index m with f(m) <= f(i) for every candidate i
\* and f(i) > f(m) for every i < m; index 0 is selected when the field is
\* constant.
C22_LowestIndexOfMinimum ==
  ret.op = "step" =>
    \A m \in {ret.eval.scan} :
      /\ m.iMin \in 0..(Len(ret.eval.field) - 1)
      /\ m.minVal = ret.eval.field[m.iMin + 1]
      /\ \A i \in 1..Len(ret.eval.field) : m.minVal <= ret.eval.field[i]
      /\ \A i \in 1..m.iMin : ret.eval.field[i] > m.minVal
      /\ (\A i \in 1..Len(ret.eval.field) : ret.eval.field[i] = ret.eval.field[1])
           => m.iMin = 0

\* a step() whose field is not constant and attains its minimum at two
\* candidates, the first of them not candidate 0
C22_Witness ==
  /\ ret.op = "step"
  /\ ret.eval.scan.iMin > 0
  /\ \E i \in 1..Len(ret.eval.field) :
       /\ i - 1 > ret.eval.scan.iMin
       /\ ret.eval.field[i] = ret.eval.scan.minVal



\* the distances of candidate i to the organs in the active buffers of s
ActiveDistances(s, i) ==
  [j \in 1..s.activeCount |->
     Distance(s, TruncDiv(s.cfg.R * s.candidateCos[i + 1], TrigScale),
                 TruncDiv(s.cfg.R * s.candidateSin[i + 1], TrigScale), j - 1)]

\* the penalty when an active organ is inside the exclusion radius, the sum
\* of the contributions of the distances ds otherwise
PenaltyOrSum(s, ds) ==
  IF s.kernel.hasHardCore /\ \E j \in 1..Len(ds) : ds[j] < s.kernel.d0
    THEN HARD_CORE_PENALTY
    ELSE Sum([j \in 1..Len(ds) |-> KernelFn(s.kernel.fn, ds[j])])

\* C23: the field value at a candidate is the sum of the contributions of
\* all active organs, except that it is exactly the exclusion penalty when
\* the kernel has an exclusion radius and some active organ is closer than
\* d0, wherever that organ is in the buffers.
C23_FieldIsSumOrPenalty ==
  ret.op = "step" =>
    \A i \in 0..(simulator.cfg.angleSamples - 1) :
      ret.eval.field[i + 1] = PenaltyOrSum(simulator, ActiveDistances(simulator, i))

\* a step() with two active organs and an exclusion radius: at some
\* candidate only the second organ is inside the radius, after a contribution
\* of the first was summed, and some candidate is outside both radii
C23_Witness ==
  /\ ret.op = "step"
  /\ simulator.kernel.hasHardCore
  /\ simulator.activeCount = 2
  /\ \E i \in 0..(simulator.cfg.angleSamples - 1) :
       /\ ActiveDistances(simulator, i)[1] >= simulator.kernel.d0
       /\ KernelFn(simulator.kernel.fn, ActiveDistances(simulator, i)[1]) > 0
       /\ ActiveDistances(simulator, i)[2] < simulator.kernel.d0
       /\ ret.eval.field[i + 1] = HARD_CORE_PENALTY
  /\ \E i \in 0..(simulator.cfg.angleSamples - 1) :
       /\ ret.eval.field[i + 1] > 0
       /\ ret.eval.field[i + 1] < HARD_CORE_PENALTY



\* ------------------------------------------------------------------------
\* The state of the uniform source
\* ------------------------------------------------------------------------

\* (w + u * 0x6D2B79F5) mod 2^32
RECURSIVE AddIncrements(_, _)
AddIncrements(w, u) ==
  IF u = 0 THEN w
  ELSE AddIncrements(AddW(w, [hi |-> IncHi, lo |-> IncLo]), u - 1)

\* the calls of the uniform source made by k calls of next(): two for each
\* call that found no spare
UniformCalls(k) == 2 * ((k + 1) \div 2)

\* C24: after u calls the captured state of mulberry32(seed) is
\* (seed + u * 0x6D2B79F5) mod 2^32, within 32 bits.
C24_StateWithin32Bits ==
  /\ simulator.gaussianRng.rng.hi < Half
  /\ simulator.gaussianRng.rng.lo < Half
  /\ simulator.gaussianRng.rng =
       AddIncrements(mulberry32(ret.seed), UniformCalls(ret.k))



\* ------------------------------------------------------------------------
\* The host: the animation loop and the callbacks of the controls.  The
\* module-level variables of the host and the frame requests the browser
\* holds are the fields of ret:
\*   op           the handler that ran last
\*   isRunning    the variable isRunning
\*   animationId  the variable animationId, NullId for null
\*   scheduled    the ids of the animationFrame callbacks the browser has
\*                been asked to run and has neither run nor cancelled
\*   requested    the last handler called requestAnimationFrame
\*   ranBatch     the last handler called simulator.runBatch()
\*   stoppedBy    the handler that last assigned false to isRunning since the
\*                last onRun() that assigned true, "none" if there is none
\*   startCount   the organ count at the last onRun() that assigned true
\*   batches      the runBatch() calls since then
\* A handler runs to completion before the next one starts.  The disabled
\* state of the buttons is not used: the callbacks are taken in any order.
\* ------------------------------------------------------------------------

\* animationId = null
NullId == 0

HostConfigs ==
  { [R |-> 100, v |-> 25, dt |-> 2, maxR |-> 200,
     angleSamples |-> MinAngleSamples, totalPrimordia |-> t, batchSize |-> b,
     kernel |-> [type |-> "exp", A |-> 1, lambda |-> 18],
     noise |-> [enabled |-> FALSE, sigmaThetaDeg |-> 0, seed |-> DefaultSeed],
     render |-> Render] :
      t \in MinTotalPrimordia..MaxTotal, b \in 1..MaxBatch }

InitHost ==
  /\ phase = "Uninitialized"
  /\ simulator = NewSimulator
  /\ ret = [op |-> "new", isRunning |-> FALSE, animationId |-> NullId,
            scheduled |-> {}, requested |-> FALSE, ranBatch |-> FALSE,
            stoppedBy |-> "none", startCount |-> 0, batches |-> 0]

\* the record of a handler that has called neither requestAnimationFrame nor
\* runBatch yet
Enter(h, op) == [h EXCEPT !.op = op, !.requested = FALSE, !.ranBatch = FALSE]

\* isRunning = false in handler op
Stop(h, op) == [h EXCEPT !.isRunning = FALSE, !.stoppedBy = op]

\* the id requestAnimationFrame returns: one that is neither scheduled nor
\* held in animationId (ids are only compared, so the least such id stands
\* for a new one)
FreshId(h) ==
  CHOOSE i \in 1..(Cardinality(h.scheduled) + 2) :
    /\ i \notin h.scheduled \cup {h.animationId}
    /\ \A j \in 1..(i - 1) : j \in h.scheduled \cup {h.animationId}

\* a request that returns an id and schedules nothing
requestAnimationFrame_dropped(h) ==
  [h EXCEPT !.animationId = FreshId(h), !.requested = TRUE]

\* animationId = requestAnimationFrame(animationFrame)
requestAnimationFrame(h) ==
  [h EXCEPT !.animationId = FreshId(h),
            !.scheduled = h.scheduled \cup {FreshId(h)},
            !.requested = TRUE]

\* cancelAnimationFrame(id)
cancelAnimationFrame(h, id) == [h EXCEPT !.scheduled = h.scheduled \ {id}]

\* main(): init(ui.init()) and reset() on the new engine
MainCall ==
  /\ phase = "Uninitialized"
  /\ \E c \in HostConfigs :
       /\ validateConfig(c)
       /\ simulator' = reset(init(simulator, c))
  /\ phase' = "Seeded"
  /\ ret' = Enter(ret, "main")

\* onApply(cfg), called by handleApply with a configuration validateConfig
\* accepted
OnApplyCall ==
  /\ phase = "Seeded"
  /\ \E c \in HostConfigs :
       /\ validateConfig(c)
       /\ simulator' = reset(init(simulator, c))
  /\ ret' = Stop(Enter(ret, "onApply"), "onApply")
  /\ UNCHANGED phase

\* the test of onRun that guards its request with <= in place of ===: a
\* request is made whatever animationId holds
NoFramePending_always(h) == h.animationId >= NullId

\* animationId === null in onRun
NoFramePending(h) == h.animationId = NullId

\* the assignments of onRun on an incomplete simulation
Start(h, n) ==
  [h EXCEPT !.isRunning = TRUE, !.stoppedBy = "none",
            !.startCount = n, !.batches = 0]

OnRunCall ==
  /\ phase = "Seeded"
  /\ ret' = IF isComplete(simulator) THEN Enter(ret, "onRun")
            ELSE IF NoFramePending(ret)
              THEN requestAnimationFrame(Start(Enter(ret, "onRun"), OrganCount))
              ELSE Start(Enter(ret, "onRun"), OrganCount)
  /\ UNCHANGED <<phase, simulator>>

OnPauseCall ==
  /\ phase = "Seeded"
  /\ ret' = Stop(Enter(ret, "onPause"), "onPause")
  /\ UNCHANGED <<phase, simulator>>

OnStepCall ==
  /\ phase = "Seeded"
  /\ IF isComplete(simulator)
       THEN /\ ret' = Enter(ret, "onStep")
            /\ UNCHANGED simulator
       ELSE /\ ret' = Stop(Enter(ret, "onStep"), "onStep")
            /\ simulator' = step(simulator)
  /\ UNCHANGED phase

OnResetCall ==
  /\ phase = "Seeded"
  /\ ret' = IF ret.animationId # NullId
              THEN [cancelAnimationFrame(Stop(Enter(ret, "onReset"), "onReset"),
                                         ret.animationId)
                      EXCEPT !.animationId = NullId]
              ELSE Stop(Enter(ret, "onReset"), "onReset")
  /\ simulator' = reset(simulator)
  /\ UNCHANGED phase

\* the test of animationFrame without !isRunning
FrameStops_ignoresPause(h, s) == isComplete(s)

\* !isRunning || simulator.isComplete() in animationFrame
FrameStops(h, s) == ~h.isRunning \/ isComplete(s)

\* the record after the branch of animationFrame that returns early
FrameReturn(h, s) ==
  IF isComplete(s)
    THEN [h EXCEPT !.isRunning = FALSE, !.animationId = NullId]
    ELSE [h EXCEPT !.animationId = NullId]

\* the browser runs the scheduled callback id: the assignments of
\* animationFrame to the variables of the host
AnimationFrameHost ==
  /\ phase = "Seeded"
  /\ \E id \in ret.scheduled :
       ret' = IF FrameStops(ret, simulator)
                THEN FrameReturn(
                       cancelAnimationFrame(Enter(ret, "animationFrame"), id),
                       simulator)
                ELSE requestAnimationFrame(
                       [cancelAnimationFrame(Enter(ret, "animationFrame"), id)
                          EXCEPT !.ranBatch = TRUE,
                                 !.batches = ret.batches + 1])

\* animationFrame: simulator.runBatch() unless it returns early
AnimationFrameCall ==
  /\ AnimationFrameHost
  /\ simulator' = IF FrameStops(ret, simulator) THEN simulator
                  ELSE runBatch(simulator).s
  /\ UNCHANGED phase

NextHost ==
  \/ MainCall
  \/ OnApplyCall
  \/ OnRunCall
  \/ OnPauseCall
  \/ OnStepCall
  \/ OnResetCall
  \/ AnimationFrameCall

SpecHost == InitHost /\ [][NextHost]_vars

\* the browser runs a scheduled callback at the next display frame.  A step
\* of NextHost assigns "animationFrame" to ret.op only in AnimationFrameCall,
\* so the steps of AnimationFrameHost are those of AnimationFrameCall, and
\* both are enabled in the same states.
SpecHostFrames == SpecHost /\ WF_ret(AnimationFrameHost)



\* C25: the handlers onPause, onApply, onReset and an onStep on an incomplete
\* simulation leave isRunning false, only onRun makes it true, and from then
\* to the next onRun no animation frame calls runBatch(): a frame that was
\* scheduled before runs without changing the engine.
C25_NoBatchWhilePaused ==
  [][/\ ret'.op \in {"onPause", "onApply", "onReset"} => ~ret'.isRunning
     /\ (ret'.op = "onStep" /\ ~isComplete(simulator)) => ~ret'.isRunning
     /\ (~ret.isRunning /\ ret'.isRunning) => ret'.op = "onRun"
     /\ (ret'.op = "animationFrame" /\ ~ret.isRunning) =>
           /\ simulator' = simulator
           /\ ~ret'.ranBatch
     /\ ret'.ranBatch => ret.stoppedBy = "none"]_vars

\* a run that was paused after a batch, the simulation incomplete: the frame
\* scheduled by that batch has run and has called no runBatch()
C25_Witness ==
  /\ ret.op = "animationFrame"
  /\ ret.stoppedBy = "onPause"
  /\ ret.batches >= 1
  /\ ~ret.ranBatch
  /\ ~isComplete(simulator)
  /\ ret.animationId = NullId

\* the least number of batches of size b that make a organs
CeilDiv(a, b) == (a + b - 1) \div b

\* a run that no handler has stopped
Running == phase = "Seeded" /\ ret.isRunning /\ ret.stoppedBy = "none"

\* the simulation is complete and the loop has ended
Finished ==
  /\ phase = "Seeded"
  /\ isComplete(simulator)
  /\ ~ret.isRunning
  /\ ret.animationId = NullId
  /\ ret.scheduled = {}

\* C26: after onRun() at organ count n on an incomplete simulation, while no
\* onPause, onApply, onStep or onReset stops the run, at most
\* ceil((totalPrimordia - n) / batchSize) batches are run, and the run leads
\* to a complete simulation with isRunning false and no frame scheduled.
C26_RunCompletes ==
  /\ [](Running =>
          ret.batches <= CeilDiv(simulator.cfg.totalPrimordia - ret.startCount,
                                 simulator.cfg.batchSize))
  /\ (Running ~> (Finished \/ ret.stoppedBy # "none"))

\* a run of two batches or more that no handler stopped has ended
C26_Witness ==
  /\ Finished
  /\ ret.op = "animationFrame"
  /\ ret.stoppedBy = "none"
  /\ ret.batches >= 2
  /\ ret.batches = CeilDiv(simulator.cfg.totalPrimordia - ret.startCount,
                           simulator.cfg.batchSize)

\* C29: animationId is non-null exactly when one animationFrame callback is
\* scheduled, and that callback is the one animationId names: never more
\* than one is pending.
C29_OneFramePending ==
  ret.scheduled = IF ret.animationId = NullId THEN {} ELSE {ret.animationId}

\* onRun() while the frame of an earlier run is pending: isRunning is set and
\* no second frame is requested
C29_Witness ==
  /\ ret.op = "onRun"
  /\ ret.isRunning
  /\ ~ret.requested
  /\ ret.batches = 0
  /\ ret.animationId # NullId
  /\ ret.scheduled = {ret.animationId}



\* ------------------------------------------------------------------------
\* The radii in rounded arithmetic: every sum is rounded to Mantissa bits
\* ------------------------------------------------------------------------

\* R, v and dt, numbers of the format; the radii pass from one binade to the
\* next within MaxAge steps
DriftGeometries ==
  { [R |-> r, v |-> v, dt |-> d] : r \in {1000, 1001}, v \in 1..3, d \in 1..2 }

\* driftAllPrimordia on the radii: p.r += drift for every organ
DriftRadii(radii, g) ==
  [i \in 1..Len(radii) |-> Fl(radii[i] + Fl(g.v * g.dt))]

\* init(cfg): ret holds the configuration and the radii of the organs
DriftInitCall ==
  /\ ret.op = "new"
  /\ \E g \in DriftGeometries : ret' = [op |-> "init", cfg |-> g, radii |-> <<>>]
  /\ UNCHANGED <<phase, simulator>>

\* reset(): one organ, at radius R
DriftResetCall ==
  /\ ret.op \in {"init", "reset", "step"}
  /\ ret' = [ret EXCEPT !.op = "reset", !.radii = <<ret.cfg.R>>]
  /\ UNCHANGED <<phase, simulator>>

\* step(): the drift, then the new organ at radius R
DriftStepCall ==
  /\ ret.op \in {"reset", "step"}
  /\ Len(ret.radii) <= MaxAge
  /\ ret' = [ret EXCEPT !.op = "step",
                        !.radii = Append(DriftRadii(ret.radii, ret.cfg), ret.cfg.R)]
  /\ UNCHANGED <<phase, simulator>>

NextDrift == DriftInitCall \/ DriftResetCall \/ DriftStepCall

SpecDrift == Init /\ [][NextDrift]_vars

\* R + age * v * dt, each operation rounded once
RadiusOfAge(g, age) == Fl(g.R + Fl(age * Fl(g.v * g.dt)))

\* C27: after reset() and step() calls, with n organs in the history, organ
\* i has radius R + (n - 1 - i) * v * dt, and the radii are strictly
\* decreasing with birth index.
C27_ExactRadiusByAge ==
  ret.op \in {"reset", "step"} =>
    /\ \A i \in 1..Len(ret.radii) :
         ret.radii[i] = RadiusOfAge(ret.cfg, Len(ret.radii) - i)
    /\ \A i \in 1..(Len(ret.radii) - 1) : ret.radii[i] > ret.radii[i + 1]



\* ------------------------------------------------------------------------
\* The noise samples a run consumes
\* ------------------------------------------------------------------------

\* the captured state of a uniform source created as w, after u calls
RECURSIVE AdvanceSeedN(_, _)
AdvanceSeedN(w, u) == IF u = 0 THEN w ELSE AdvanceSeedN(AdvanceSeed(w), u - 1)

\* C28: a step() that places an organ consumes one normal sample when noise
\* is enabled and none when it is disabled: k placing steps after reset()
\* leave the uniform source 2 * ceil(k / 2) calls from its seed, with a spare
\* cached iff k is odd; with noise disabled the generator stays as reset()
\* left it and the placed angle is the refined minimum angle.
C28_OneSamplePerStep ==
  /\ [](phase = "Seeded" =>
          IF simulator.cfg.noise.enabled
            THEN /\ simulator.gaussianRng.rng =
                      AdvanceSeedN(mulberry32(simulator.cfg.noise.seed),
                                   2 * CeilDiv(OrganCount - 1, 2))
                 /\ (simulator.gaussianRng.spare # NoSpare)
                      = ((OrganCount - 1) % 2 = 1)
            ELSE simulator.gaussianRng = NewGaussianRNG(simulator.cfg.noise.seed))
  /\ [][(ret'.op = "step" /\ ~simulator.cfg.noise.enabled) =>
          simulator'.primordia[Len(simulator'.primordia)].theta =
            findMinimumFieldAngle(FieldEvaluationState(simulator))]_vars

\* three placing steps with noise enabled: the second took the spare of the
\* first, the third drew a second pair of uniforms and left a spare
C28_Witness ==
  /\ phase = "Seeded"
  /\ ret.op = "step"
  /\ simulator.cfg.noise.enabled
  /\ OrganCount = 4
  /\ simulator.gaussianRng.spare # NoSpare
  /\ simulator.gaussianRng.rng =
       AdvanceSeedN(mulberry32(simulator.cfg.noise.seed), 4)



\* ------------------------------------------------------------------------
\* The two field evaluators
\* ------------------------------------------------------------------------

\* every kernel variant, and a hardCoreExp kernel whose range reaches the
\* organs outside the exclusion radius
EvaluatorConfigs ==
  { [R |-> 100, v |-> 25, dt |-> 2, maxR |-> 200,
     angleSamples |-> MinAngleSamples, totalPrimordia |-> t, batchSize |-> 1,
     kernel |-> k,
     noise |-> [enabled |-> FALSE, sigmaThetaDeg |-> 0, seed |-> DefaultSeed],
     render |-> Render] :
      t \in MinTotalPrimordia..MaxTotal,
      k \in KernelChoices
             \cup { [type |-> "hardCoreExp", A |-> 1, lambda |-> 100, d0 |-> 60] } }

EvaluatorInitCall ==
  /\ phase = "Uninitialized"
  /\ \E c \in EvaluatorConfigs :
       /\ validateConfig(c)
       /\ simulator' = init(simulator, c)
  /\ phase' = "Ready"
  /\ ret' = [op |-> "init"]

NextEvaluators ==
  \/ EvaluatorInitCall
  \/ ResetCall
  \/ StepCall
  \/ GetFieldValuesCall

SpecEvaluators == Init /\ [][NextEvaluators]_vars

\* C30: on the same engine state getFieldValues()[i] is the value
\* fieldAtIndex(i) computes, for every candidate i and every kernel variant,
\* the exclusion penalty included.
C30_EvaluatorsAgree ==
  ret.op = "getFieldValues" =>
    \A i \in 0..(simulator.cfg.angleSamples - 1) :
      ret.value[i + 1] = fieldAtIndex(simulator, i)

\* getFieldValues() with two organs in the buffers and an exclusion radius:
\* some candidates are at the penalty, others hold a sum
C30_Witness ==
  /\ ret.op = "getFieldValues"
  /\ simulator.kernel.hasHardCore
  /\ simulator.activeCount = 2
  /\ \E i \in 1..Len(ret.value) : ret.value[i] = HARD_CORE_PENALTY
  /\ \E i \in 1..Len(ret.value) :
       ret.value[i] > 0 /\ ret.value[i] < HARD_CORE_PENALTY


====
